---- MODULE Spec2Model ----
(***************************************************************************)
(* Asynchronous file I/O layer of libuv on Windows (src/win/file.c).       *)
(*                                                                         *)
(* One uv_file_t handle, the requests submitted on it, and the event loop  *)
(* that delivers their completions and evaluates the handle's endgame.     *)
(* Everything runs on the loop thread: the caller's code runs either at    *)
(* top level or inside a completion callback, and the loop delivers a      *)
(* completion or evaluates the endgame only when no callback is running.   *)
(*                                                                         *)
(* file_pointer and the offsets are 64-bit in the source (LARGE_INTEGER,   *)
(* handed to the system as its two 32-bit halves).  They are integers      *)
(* here: the cursor is a file position plus the bytes submitted, far from  *)
(* 2^63.                                                                   *)
(***************************************************************************)
EXTENDS Integers, Sequences, FiniteSets, TLC

VARIABLES
  flags,               \* handle->flags, the set of UV_HANDLE_* bits that are set
  handle,              \* handle->handle, the native file handle
  file_pointer,        \* handle->file_pointer.QuadPart, the logical cursor
  reqs_pending,        \* handle->reqs_pending
  read_reqs_pending,   \* handle->read_reqs_pending
  write_reqs_pending,  \* handle->write_reqs_pending
  read_queue_size,     \* handle->read_queue_size
  write_queue_size,    \* handle->write_queue_size
  close_cb,            \* handle->close_cb is not NULL
  close_called,        \* number of times handle->close_cb has been invoked
  reqs,                \* every uv_read_t / uv_write_t handed to a submission call, in call order
  in_cb,               \* index in reqs of the request whose callback is running, 0 if none
  calls,               \* the entry point each request of reqs was handed to, in call order
  init_pointer,        \* the file position uv_set_file_handle captured
  inits                \* the calls of uv_file_init: what the system answered and the return value

vars == << flags, handle, file_pointer, reqs_pending, read_reqs_pending,
           write_reqs_pending, read_queue_size, write_queue_size, close_cb,
           close_called, reqs, in_cb, calls, init_pointer, inits >>

counters == << reqs_pending, read_reqs_pending, write_reqs_pending,
               read_queue_size, write_queue_size >>

closing_state == << close_cb, close_called >>

(***************************************************************************)
(* Bounds and input sets.                                                  *)
(***************************************************************************)
MaxReqs == 3
MaxBurst == 2
MaxLive == 2
MaxDone == 2

Lens == {1, 2}
Positions == {0, 1}
\* requested offsets handed to the *_offset calls; uv_file_read and uv_file_write pass 0
Offsets == {-1, 1}
Dispositions == {"UV_START", "UV_CURRENT", "UV_END"}
OsOutcomes == {"sync", "pending", "fail"}
\* req->error.code as the loop left it when it took the completion off the port
Errors == {"UV_OK", "SYS"}
\* GetOverlappedResult: all of the buffer transferred, none of it, or the query failed
Queries == {"full", "short", "fail"}
\* the width of ssize_t: 32 bits on a 32-bit build, 64 on a 64-bit one (DWORD is 32 in both)
SsizeWidths == {32, 64}

\* buffer lists: bufs[] as the sequence of the buffers' lengths, bufcnt its length
OneBufLists == {<<l>> : l \in Lens}

(***************************************************************************)
(* Pure helpers.                                                           *)
(***************************************************************************)
\* the sum of a sequence of numbers
RECURSIVE SeqSum(_)
SeqSum(s) == IF s = << >> THEN 0 ELSE Head(s) + SeqSum(Tail(s))

RECURSIVE uv_count_bufs(_)
uv_count_bufs(bufs) ==
  IF bufs = << >> THEN 0 ELSE Head(bufs) + uv_count_bufs(Tail(bufs))

\* The disposition switch of uv_file_read_offset: the resolved offset, or not supported.
ReadTrueOffset(disposition, offset, fp) ==
  CASE disposition = "UV_START"   -> [supported |-> TRUE,  QuadPart |-> offset]
    [] disposition = "UV_CURRENT" -> [supported |-> TRUE,  QuadPart |-> fp + offset]
    [] disposition = "UV_END"     -> [supported |-> FALSE, QuadPart |-> 0]

\* A write that resolves START against the cursor instead of the file's start.
WriteTrueOffset_StartFromCursor(disposition, offset, fp) ==
  CASE disposition = "UV_START"   -> [supported |-> TRUE,  QuadPart |-> fp + offset]
    [] disposition = "UV_CURRENT" -> [supported |-> TRUE,  QuadPart |-> fp + offset]
    [] disposition = "UV_END"     -> [supported |-> FALSE, QuadPart |-> 0]

\* The disposition switch of uv_file_write_offset.
WriteTrueOffset(disposition, offset, fp) ==
  CASE disposition = "UV_START"   -> [supported |-> TRUE,  QuadPart |-> offset]
    [] disposition = "UV_CURRENT" -> [supported |-> TRUE,  QuadPart |-> fp + offset]
    [] disposition = "UV_END"     -> [supported |-> FALSE, QuadPart |-> 0]

\* A read that turns away only the empty buffer list.
ReadBufcntSupported_AtLeastOne(bufcnt) == bufcnt >= 1

\* if (bufcnt != 1) return UV_ENOTSUP
ReadBufcntSupported(bufcnt) == bufcnt = 1

WriteBufcntSupported(bufcnt) == bufcnt = 1

\* A read that leaves the cursor where it was until the read completes.
ReadAdvance_Late(fp, len) == fp

\* A write that leaves the cursor where it was until the write completes.
WriteAdvance_Late(fp, len) == fp

\* A write that moves the cursor by twice the buffer length.
WriteAdvance_Twice(fp, len) == fp + 2 * len

\* file->file_pointer.QuadPart += req->bufs[0].len
ReadAdvance(fp, len) == fp + len

WriteAdvance(fp, len) == fp + len

\* A read that counts its bytes as queued although it completed at once.
ReadQueuedBytes_Always(os, bufs) == uv_count_bufs(bufs)

\* if (result) queued_bytes = 0; else queued_bytes = uv_count_bufs(bufs, bufcnt)
ReadQueuedBytes(os, bufs) == IF os = "sync" THEN 0 ELSE uv_count_bufs(bufs)

WriteQueuedBytes(os, bufs) == IF os = "sync" THEN 0 ELSE uv_count_bufs(bufs)

\* A submission that takes every outcome of the system call for a started one.
ReadHardFailure_Never(os) == FALSE

\* if (!result && GetLastError() != ERROR_IO_PENDING) return -1
ReadHardFailure(os) == os = "fail"

WriteHardFailure(os) == os = "fail"

\* Numbers that need more than 31 bits are kept as two parts: n = hi * 2^16 + lo
\* with 0 <= lo < 2^16, so -1 is << -1, 65535 >> and 2^32 - 1 is << 65535, 65535 >>.
Limb == 2 ^ 16

\* a number as a DWORD: reduced modulo 2^32
DwordOf(n) == << (n \div Limb) % Limb, n % Limb >>

\* a number that fits ssize_t
SsizeOf(n) == << n \div Limb, n % Limb >>

\* DWORD to ssize_t: the same bits read as signed where ssize_t has 32 bits,
\* zero-extended where it has 64
DwordToSsize(bits, dword) ==
  IF bits = 32 /\ dword[1] >= Limb \div 2
  THEN << dword[1] - Limb, dword[2] >>
  ELSE dword

\* if (!GetOverlappedResult(..., &bytes_transferred, FALSE)) bytes_transferred = -1
BytesTransferred(query, len) ==
  CASE query = "full"  -> DwordOf(len)
    [] query = "short" -> DwordOf(0)
    [] query = "fail"  -> DwordOf(-1)

\* LOOP->last_error.code == UV_OK ? UV_OK : -1, with last_error = req->error
WriteStatus(error, query) == IF error = "UV_OK" THEN "UV_OK" ELSE "-1"

\* A Completion Processor with the test of req->cb inverted.
InvokesReadCb_Inverted(req) == ~req.cb

\* if (req->cb) in the Completion Processor
InvokesReadCb(req) == req.cb

InvokesWriteCb(req) == req.cb

\* ReadFile / WriteFile on a handle: an invalidated handle can only fail outright.
OsResults(h) == IF h = "INVALID_HANDLE_VALUE" THEN {"fail"} ELSE OsOutcomes

\* A request as the layer and the loop see it.  The call's arguments and its
\* return value are kept with it, and so are req->error, the answer of
\* GetOverlappedResult and the arguments its callback was called with.
Request(type, offset, disposition, bufs, cb, fp, true_offset, os, queued, state, r, err) ==
  [ type |-> type, req_offset |-> offset, disposition |-> disposition,
    bufs |-> bufs, cb |-> cb, fp_before |-> fp, offset |-> true_offset,
    os |-> os, queued_bytes |-> queued, state |-> state, cb_calls |-> 0,
    ret |-> r, err |-> err,
    error |-> "none", query |-> "none",
    nread |-> << >>, buf |-> << >>, status |-> "none" ]

(***************************************************************************)
(* uv_file_init                                                            *)
(***************************************************************************)
Init ==
  /\ flags = {}
  /\ handle = "none"
  /\ file_pointer = 0
  /\ reqs_pending = 0
  /\ read_reqs_pending = 0
  /\ write_reqs_pending = 0
  /\ read_queue_size = 0
  /\ write_queue_size = 0
  /\ close_cb = FALSE
  /\ close_called = 0
  /\ reqs = << >>
  /\ in_cb = 0
  /\ calls = << >>
  /\ init_pointer = 0
  /\ inits = << >>

\* A uv_set_file_handle that goes on although the position query failed.
uv_set_file_handle_IgnoresPosition(registered, positioned, position, fp) ==
  IF ~registered THEN [ret |-> -1, file_pointer |-> fp]
  ELSE [ret |-> 0, file_pointer |-> IF positioned THEN position ELSE fp]

\* uv_set_file_handle: 0 and the captured position, or -1.
uv_set_file_handle(registered, positioned, position, fp) ==
  IF ~registered THEN [ret |-> -1, file_pointer |-> fp]
  ELSE IF ~positioned THEN [ret |-> -1, file_pointer |-> fp]
  ELSE [ret |-> 0, file_pointer |-> position]

uv_file_init(registered, positioned, position) ==
  /\ LET r == uv_set_file_handle(registered, positioned, position, file_pointer) IN
       /\ handle' = "native"
       /\ reqs_pending' = 0
       /\ file_pointer' = r.file_pointer
       /\ init_pointer' = r.file_pointer
       /\ flags' = IF r.ret # 0 THEN {} ELSE {"UV_HANDLE_BOUND"}
       /\ inits' = Append(inits, [registered |-> registered, positioned |-> positioned,
                                  position |-> position,
                                  ret |-> IF r.ret # 0 THEN -1 ELSE 0])
  /\ UNCHANGED << read_reqs_pending, write_reqs_pending, read_queue_size,
                  write_queue_size, close_cb, close_called, reqs, in_cb >>

(***************************************************************************)
(* Read / write submission                                                 *)
(***************************************************************************)
uv_file_read_offset(offset, disposition, bufs, read_cb, os) ==
  LET bufcnt == Len(bufs)
      true_offset == ReadTrueOffset(disposition, offset, file_pointer)
  IN
  IF ~ReadBufcntSupported(bufcnt) \/ ~true_offset.supported
  THEN /\ reqs' = Append(reqs, Request("UV_READ", offset, disposition, bufs, read_cb,
                                       file_pointer, 0, "none", 0, "rejected", -1, "UV_ENOTSUP"))
       /\ UNCHANGED << flags, handle, file_pointer, counters, closing_state, in_cb, init_pointer, inits >>
  ELSE
    /\ file_pointer' = ReadAdvance(file_pointer, bufs[1])
    /\ IF ReadHardFailure(os)
       THEN /\ reqs' = Append(reqs, Request("UV_READ", offset, disposition, bufs, read_cb,
                                            file_pointer, true_offset.QuadPart, os, 0,
                                            "failed", -1, "SYS"))
            /\ UNCHANGED counters
       ELSE LET queued_bytes == ReadQueuedBytes(os, bufs) IN
            /\ reqs' = Append(reqs, Request("UV_READ", offset, disposition, bufs, read_cb,
                                            file_pointer, true_offset.QuadPart, os,
                                            queued_bytes, "inflight", 0, "UV_OK"))
            /\ read_queue_size' = read_queue_size + queued_bytes
            /\ reqs_pending' = reqs_pending + 1
            /\ read_reqs_pending' = read_reqs_pending + 1
            /\ UNCHANGED << write_reqs_pending, write_queue_size >>
    /\ UNCHANGED << flags, handle, closing_state, in_cb, init_pointer, inits >>

uv_file_read(bufs, read_cb, os) ==
  uv_file_read_offset(0, "UV_CURRENT", bufs, read_cb, os)

uv_file_write_offset(offset, disposition, bufs, cb, os) ==
  LET bufcnt == Len(bufs)
      true_offset == WriteTrueOffset(disposition, offset, file_pointer)
  IN
  IF ~WriteBufcntSupported(bufcnt) \/ ~true_offset.supported
  THEN /\ reqs' = Append(reqs, Request("UV_WRITE", offset, disposition, bufs, cb,
                                       file_pointer, 0, "none", 0, "rejected", -1, "UV_ENOTSUP"))
       /\ UNCHANGED << flags, handle, file_pointer, counters, closing_state, in_cb, init_pointer, inits >>
  ELSE
    /\ file_pointer' = WriteAdvance(file_pointer, bufs[1])
    /\ IF WriteHardFailure(os)
       THEN /\ reqs' = Append(reqs, Request("UV_WRITE", offset, disposition, bufs, cb,
                                            file_pointer, true_offset.QuadPart, os, 0,
                                            "failed", -1, "SYS"))
            /\ UNCHANGED counters
       ELSE LET queued_bytes == WriteQueuedBytes(os, bufs) IN
            /\ reqs' = Append(reqs, Request("UV_WRITE", offset, disposition, bufs, cb,
                                            file_pointer, true_offset.QuadPart, os,
                                            queued_bytes, "inflight", 0, "UV_OK"))
            /\ write_queue_size' = write_queue_size + queued_bytes
            /\ reqs_pending' = reqs_pending + 1
            /\ write_reqs_pending' = write_reqs_pending + 1
            /\ UNCHANGED << read_reqs_pending, read_queue_size >>
    /\ UNCHANGED << flags, handle, closing_state, in_cb, init_pointer, inits >>

uv_file_write(bufs, cb, os) ==
  uv_file_write_offset(0, "UV_CURRENT", bufs, cb, os)

(***************************************************************************)
(* Shutdown and close requests (uv_shutdown, uv_close)                     *)
(***************************************************************************)
\* Arms the write-side drain; the shutdown counts as one pending request of
\* its own until the endgame's shutdown step has run.
uv_shutdown ==
  /\ "UV_HANDLE_SHUTTING" \notin flags
  /\ flags' = flags \cup {"UV_HANDLE_SHUTTING"}
  /\ reqs_pending' = reqs_pending + 1
  /\ UNCHANGED << handle, file_pointer, read_reqs_pending, write_reqs_pending,
                  read_queue_size, write_queue_size, closing_state, reqs, in_cb,
                  init_pointer, inits >>

\* Arms closing and keeps the callback; the teardown is left to the endgame.
uv_close(cb) ==
  /\ "UV_HANDLE_CLOSING" \notin flags
  /\ flags' = flags \cup {"UV_HANDLE_CLOSING"}
  /\ close_cb' = cb
  /\ UNCHANGED << handle, file_pointer, counters, close_called, reqs, in_cb,
                  init_pointer, inits >>

(***************************************************************************)
(* uv_file_endgame                                                         *)
(***************************************************************************)
\* A close_file that releases the file and forgets to set shut.
close_file_NoShut(h, f) == [handle |-> "INVALID_HANDLE_VALUE", flags |-> f]

close_file(h, f) == [handle |-> "INVALID_HANDLE_VALUE", flags |-> f \cup {"UV_HANDLE_SHUT"}]

\* A shutdown step that does not wait for the writes.
ShutdownStepGuard_NoDrain(f, writes) ==
  /\ "UV_HANDLE_SHUTTING" \in f
  /\ "UV_HANDLE_SHUT" \notin f

\* if (SHUTTING && !SHUT && write_reqs_pending == 0)
ShutdownStepGuard(f, writes) ==
  /\ "UV_HANDLE_SHUTTING" \in f
  /\ "UV_HANDLE_SHUT" \notin f
  /\ writes = 0

\* A teardown step that does not look at the pending count.
TeardownStepGuard_NoCount(f, pending) == "UV_HANDLE_CLOSING" \in f

\* A teardown step that is off by one request.
TeardownStepGuard_OffByOne(f, pending) ==
  /\ "UV_HANDLE_CLOSING" \in f
  /\ pending <= 1

\* if (CLOSING && reqs_pending == 0)
TeardownStepGuard(f, pending) ==
  /\ "UV_HANDLE_CLOSING" \in f
  /\ pending = 0

\* A shutdown step that forgets the shutdown's own pending request.
ShutdownStepPending_Kept(pending) == pending

\* handle->reqs_pending-- of the shutdown step
ShutdownStepPending(pending) == pending - 1

\* What one evaluation of uv_file_endgame makes of the handle: the fields it
\* writes, and whether its assert(!(flags & UV_HANDLE_CLOSED)) fails.
EndgameResult(f, h, pending0, writes, cb, called) ==
  LET shut    == ShutdownStepGuard(f, writes)
      closed  == close_file(h, f)
      handle1 == IF shut THEN closed.handle ELSE h
      flags1  == IF shut THEN closed.flags ELSE f
      pending == IF shut THEN ShutdownStepPending(pending0) ELSE pending0
      tear    == TeardownStepGuard(flags1, pending)
  IN
  [ handle |-> handle1,
    reqs_pending |-> pending,
    flags |-> IF tear THEN flags1 \cup {"UV_HANDLE_CLOSED"} ELSE flags1,
    close_called |-> IF tear /\ cb THEN called + 1 ELSE called,
    assert_failed |-> tear /\ "UV_HANDLE_CLOSED" \in flags1 ]

uv_file_endgame ==
  LET r == EndgameResult(flags, handle, reqs_pending, write_reqs_pending,
                         close_cb, close_called)
  IN
  /\ ~r.assert_failed
  /\ handle' = r.handle
  /\ reqs_pending' = r.reqs_pending
  /\ flags' = r.flags
  /\ close_called' = r.close_called
  /\ UNCHANGED << file_pointer, read_reqs_pending, write_reqs_pending,
                  read_queue_size, write_queue_size, close_cb, reqs, in_cb,
                  init_pointer, inits >>

(***************************************************************************)
(* Completion Processor                                                    *)
(***************************************************************************)
\* DECREASE_PENDING_REQ_COUNT(handle)
DECREASE_PENDING_REQ_COUNT(pending) == pending - 1

\* A Completion Processor that gives up the request's count before it calls req->cb.
PendingDuringCallback_Decremented(pending) == pending - 1

\* req->cb is called ahead of the decrements: the request still counts while it runs
PendingDuringCallback(pending) == pending

\* uv_process_file_read_req up to and including the call of req->cb.  With a
\* callback the processor is left inside it (in_cb); without one it runs on
\* to its end.
uv_process_file_read_req(i, error, query, bits) ==
  LET req == reqs[i]
      bytes_transferred == BytesTransferred(query, req.bufs[1])
  IN
  /\ read_queue_size' = read_queue_size - req.queued_bytes
  /\ IF InvokesReadCb(req)
     THEN /\ reqs' = [reqs EXCEPT ![i].state = "in_cb", ![i].cb_calls = @ + 1,
                                  ![i].error = error, ![i].query = query,
                                  ![i].nread = DwordToSsize(bits, bytes_transferred),
                                  ![i].buf = << req.bufs[1] >>]
          /\ in_cb' = i
          /\ read_reqs_pending' = PendingDuringCallback(read_reqs_pending)
          /\ reqs_pending' = PendingDuringCallback(reqs_pending)
     ELSE /\ reqs' = [reqs EXCEPT ![i].state = "done",
                                  ![i].error = error, ![i].query = query]
          /\ in_cb' = in_cb
          /\ read_reqs_pending' = read_reqs_pending - 1
          /\ reqs_pending' = DECREASE_PENDING_REQ_COUNT(reqs_pending)
  /\ UNCHANGED << flags, handle, file_pointer, write_reqs_pending, write_queue_size,
                  closing_state, init_pointer, inits >>

\* the rest of uv_process_file_read_req, once req->cb has returned
uv_process_file_read_req_end(i) ==
  /\ reqs' = [reqs EXCEPT ![i].state = "done"]
  /\ in_cb' = 0
  /\ read_reqs_pending' = read_reqs_pending - 1
  /\ reqs_pending' = DECREASE_PENDING_REQ_COUNT(reqs_pending)
  /\ UNCHANGED << flags, handle, file_pointer, write_reqs_pending, read_queue_size,
                  write_queue_size, closing_state, init_pointer, inits >>

uv_process_file_write_req(i, error, query) ==
  LET req == reqs[i] IN
  /\ write_queue_size' = write_queue_size - req.queued_bytes
  /\ IF InvokesWriteCb(req)
     THEN /\ reqs' = [reqs EXCEPT ![i].state = "in_cb", ![i].cb_calls = @ + 1,
                                  ![i].error = error, ![i].query = query,
                                  ![i].status = WriteStatus(error, query)]
          /\ in_cb' = i
          /\ write_reqs_pending' = PendingDuringCallback(write_reqs_pending)
          /\ reqs_pending' = PendingDuringCallback(reqs_pending)
     ELSE /\ reqs' = [reqs EXCEPT ![i].state = "done",
                                  ![i].error = error, ![i].query = query]
          /\ in_cb' = in_cb
          /\ write_reqs_pending' = write_reqs_pending - 1
          /\ reqs_pending' = DECREASE_PENDING_REQ_COUNT(reqs_pending)
  /\ UNCHANGED << flags, handle, file_pointer, read_reqs_pending, read_queue_size,
                  closing_state, init_pointer, inits >>

uv_process_file_write_req_end(i) ==
  /\ reqs' = [reqs EXCEPT ![i].state = "done"]
  /\ in_cb' = 0
  /\ write_reqs_pending' = write_reqs_pending - 1
  /\ reqs_pending' = DECREASE_PENDING_REQ_COUNT(reqs_pending)
  /\ UNCHANGED << flags, handle, file_pointer, read_reqs_pending, read_queue_size,
                  write_queue_size, closing_state, init_pointer, inits >>

(***************************************************************************)
(* The caller and the loop                                                 *)
(***************************************************************************)
\* The caller uses a handle only once it is bound and until it is closed.
Usable == "UV_HANDLE_BOUND" \in flags /\ "UV_HANDLE_CLOSED" \notin flags

\* The caller's calls, at top level or from inside a completion callback.
\* max bounds the number of requests handed in; the other parameters are the
\* sets the arguments are drawn from.
CallInit(positions) ==
  /\ handle = "none"
  /\ \E registered \in BOOLEAN, positioned \in BOOLEAN, position \in positions :
       uv_file_init(registered, positioned, position)
  /\ UNCHANGED calls

CallRead(max, buflists) ==
  /\ Usable
  /\ Len(reqs) < max
  /\ \E bufs \in buflists, os \in OsResults(handle) :
       uv_file_read(bufs, TRUE, os)
  /\ calls' = Append(calls, "uv_file_read")

CallReadOffset(max, offsets, dispositions, buflists) ==
  /\ Usable
  /\ Len(reqs) < max
  /\ \E offset \in offsets, disposition \in dispositions, bufs \in buflists,
        os \in OsResults(handle) :
       uv_file_read_offset(offset, disposition, bufs, TRUE, os)
  /\ calls' = Append(calls, "uv_file_read_offset")

CallWrite(max, buflists) ==
  /\ Usable
  /\ Len(reqs) < max
  /\ \E bufs \in buflists, os \in OsResults(handle) :
       uv_file_write(bufs, TRUE, os)
  /\ calls' = Append(calls, "uv_file_write")

CallWriteOffset(max, offsets, dispositions, buflists) ==
  /\ Usable
  /\ Len(reqs) < max
  /\ \E offset \in offsets, disposition \in dispositions, bufs \in buflists,
        os \in OsResults(handle) :
       uv_file_write_offset(offset, disposition, bufs, TRUE, os)
  /\ calls' = Append(calls, "uv_file_write_offset")

CallShutdown ==
  /\ Usable
  /\ uv_shutdown
  /\ UNCHANGED calls

CallClose ==
  /\ Usable
  /\ \E cb \in BOOLEAN : uv_close(cb)
  /\ UNCHANGED calls

\* The loop hands a finished request to the Completion Processor, once.
\* errors and queries are the sets req->error and the answer of
\* GetOverlappedResult are drawn from; the build decides the width of ssize_t.
LoopDeliverRead(errors, queries) ==
  /\ in_cb = 0
  /\ \E i \in 1..Len(reqs) :
       /\ reqs[i].type = "UV_READ"
       /\ reqs[i].state = "inflight"
       /\ \E error \in errors, query \in queries, bits \in SsizeWidths :
            uv_process_file_read_req(i, error, query, bits)
  /\ UNCHANGED calls

LoopDeliverWrite(errors, queries) ==
  /\ in_cb = 0
  /\ \E i \in 1..Len(reqs) :
       /\ reqs[i].type = "UV_WRITE"
       /\ reqs[i].state = "inflight"
       /\ \E error \in errors, query \in queries :
            uv_process_file_write_req(i, error, query)
  /\ UNCHANGED calls

\* a transfer that went through: no error recorded, the whole buffer transferred
NoError == {"UV_OK"}
Full == {"full"}

ReadCallbackReturns ==
  /\ in_cb # 0
  /\ reqs[in_cb].type = "UV_READ"
  /\ uv_process_file_read_req_end(in_cb)
  /\ UNCHANGED calls

WriteCallbackReturns ==
  /\ in_cb # 0
  /\ reqs[in_cb].type = "UV_WRITE"
  /\ uv_process_file_write_req_end(in_cb)
  /\ UNCHANGED calls

\* The loop re-evaluates the endgame until the handle has reached closed.
LoopEndgame ==
  /\ in_cb = 0
  /\ Usable
  /\ uv_file_endgame
  /\ UNCHANGED calls

(***************************************************************************)
(* Spec: the whole life of a handle.  Sequential reads and writes with no  *)
(* buffer, one or two, END-relative submissions, every outcome of the      *)
(* system call, shutdown and close requested at any point, completions     *)
(* delivered in any order.  The offsets are explored in SpecSubmit.        *)
(***************************************************************************)
LifeBufLists == {<< >>, <<2>>, <<1, 1>>}

Next ==
  \/ CallInit({0})
  \/ CallRead(MaxReqs, LifeBufLists)
  \/ CallWrite(MaxReqs, LifeBufLists)
  \/ CallReadOffset(MaxReqs, {0}, {"UV_END"}, {<<2>>})
  \/ CallWriteOffset(MaxReqs, {0}, {"UV_END"}, {<<2>>})
  \/ CallShutdown
  \/ CallClose
  \/ LoopDeliverRead(NoError, Full)
  \/ LoopDeliverWrite(NoError, Full)
  \/ ReadCallbackReturns
  \/ WriteCallbackReturns
  \/ LoopEndgame

Spec == Init /\ [][Next]_vars

(***************************************************************************)
(* SpecSubmit: bursts of single-buffer submissions with every disposition, *)
(* offset and length, completed by the loop in any order.                  *)
(***************************************************************************)
NextSubmit ==
  \/ CallInit(Positions)
  \/ CallRead(MaxBurst, OneBufLists)
  \/ CallReadOffset(MaxBurst, Offsets, Dispositions, OneBufLists)
  \/ CallWrite(MaxBurst, OneBufLists)
  \/ CallWriteOffset(MaxBurst, Offsets, Dispositions, OneBufLists)
  \/ LoopDeliverRead(NoError, Full)
  \/ LoopDeliverWrite(NoError, Full)
  \/ ReadCallbackReturns
  \/ WriteCallbackReturns

SpecSubmit == Init /\ [][NextSubmit]_vars

(***************************************************************************)
(* TestSpec: TEST_IMPL(file_io).  Three reads and two writes of 1 MiB at   *)
(* fixed offsets from the start of the file, each asserted to succeed,     *)
(* then uv_run; the callback that finds all five called closes the handle. *)
(***************************************************************************)
read_offsets == << 0, 512 * 1024 * 1024, 1023 * 1024 * 1024 >>
write_offsets == << 256 * 1024 * 1024, 768 * 1024 * 1024 >>
test_buffers == << 1024 * 1024 >>

\* ASSERT(r == 0) after every submission: a failed one ends the test
TestAsserts == \A i \in 1..Len(reqs) : reqs[i].ret = 0

\* uv_run is reached once all five requests are submitted
TestRunning ==
  TestAsserts /\ Len(reqs) = Len(read_offsets) + Len(write_offsets)

\* read_called == 3 && write_called == 2, with the callback's own increment done
TestAllCalled ==
  /\ SeqSum([i \in 1..Len(reqs) |->
       IF reqs[i].type = "UV_READ" THEN reqs[i].cb_calls ELSE 0]) = Len(read_offsets)
  /\ SeqSum([i \in 1..Len(reqs) |->
       IF reqs[i].type = "UV_WRITE" THEN reqs[i].cb_calls ELSE 0]) = Len(write_offsets)

TestSubmitRead ==
  /\ Usable
  /\ TestAsserts
  /\ Len(reqs) < Len(read_offsets)
  /\ \E os \in OsResults(handle) :
       uv_file_read_offset(read_offsets[Len(reqs) + 1], "UV_START", test_buffers, TRUE, os)
  /\ calls' = Append(calls, "uv_file_read_offset")

TestSubmitWrite ==
  /\ Usable
  /\ TestAsserts
  /\ Len(reqs) >= Len(read_offsets)
  /\ Len(reqs) < Len(read_offsets) + Len(write_offsets)
  /\ \E os \in OsResults(handle) :
       uv_file_write_offset(write_offsets[Len(reqs) - Len(read_offsets) + 1], "UV_START",
                            test_buffers, TRUE, os)
  /\ calls' = Append(calls, "uv_file_write_offset")

\* after_read / after_write: uv_close(req->handle, &after_close) once all are called
TestCallbackCloses ==
  /\ in_cb # 0
  /\ TestAllCalled
  /\ uv_close(TRUE)
  /\ UNCHANGED calls

\* the callback's body is through: nothing to close, or uv_close called
TestCallbackDone == ~TestAllCalled \/ "UV_HANDLE_CLOSING" \in flags

TestDeliverRead == TestRunning /\ LoopDeliverRead(NoError, Full)

TestDeliverWrite == TestRunning /\ LoopDeliverWrite(NoError, Full)

TestAfterReadReturns == TestCallbackDone /\ ReadCallbackReturns

TestAfterWriteReturns == TestCallbackDone /\ WriteCallbackReturns

TestEndgame == TestRunning /\ LoopEndgame

TestNext ==
  \/ CallInit({0})
  \/ TestSubmitRead
  \/ TestSubmitWrite
  \/ TestDeliverRead
  \/ TestDeliverWrite
  \/ TestCallbackCloses
  \/ TestAfterReadReturns
  \/ TestAfterWriteReturns
  \/ TestEndgame

TestSpec == Init /\ [][TestNext]_vars

(***************************************************************************)
(* LiveSpec: a handle's life under a loop that keeps running.  uv_run      *)
(* takes every completion off the port and hands it to its Completion      *)
(* Processor, runs the endgame of the handles that asked for it, and a     *)
(* completion callback returns; none of these steps is put off forever.    *)
(* The caller is under no obligation to call anything.                     *)
(***************************************************************************)
LiveBufLists == {<<2>>}

NextLive ==
  \/ CallInit({0})
  \/ CallRead(MaxLive, LiveBufLists)
  \/ CallWrite(MaxLive, LiveBufLists)
  \/ CallShutdown
  \/ CallClose
  \/ LoopDeliverRead(NoError, Full)
  \/ LoopDeliverWrite(NoError, Full)
  \/ ReadCallbackReturns
  \/ WriteCallbackReturns
  \/ LoopEndgame

LoopFairness ==
  /\ WF_vars(LoopDeliverRead(NoError, Full))
  /\ WF_vars(LoopDeliverWrite(NoError, Full))
  /\ WF_vars(ReadCallbackReturns)
  /\ WF_vars(WriteCallbackReturns)
  /\ WF_vars(LoopEndgame)

LiveSpec == Init /\ [][NextLive]_vars /\ LoopFairness

(***************************************************************************)
(* SpecComplete: what a completion can bring.  Reads and writes of one     *)
(* buffer, completed with or without an error recorded by the loop, with   *)
(* GetOverlappedResult answering a full transfer, an empty one or failing, *)
(* on a 32-bit and on a 64-bit build.                                      *)
(***************************************************************************)
NextComplete ==
  \/ CallInit({0})
  \/ CallRead(MaxDone, OneBufLists)
  \/ CallWrite(MaxDone, OneBufLists)
  \/ LoopDeliverRead(Errors, Queries)
  \/ LoopDeliverWrite(Errors, Queries)
  \/ ReadCallbackReturns
  \/ WriteCallbackReturns

SpecComplete == Init /\ [][NextComplete]_vars

(***************************************************************************)
(* Properties                                                              *)
(***************************************************************************)
Indices == 1..Len(reqs)

\* the request passed the argument checks: its byte range was reserved
Validated(r) == r.state # "rejected"

\* the submission returned success
Submitted(r) == r.state \in {"inflight", "in_cb", "done"}

\* submitted and its completion callback has not returned yet
InFlight(r) == r.state \in {"inflight", "in_cb"}

BufLen(r) == r.bufs[1]

\* the sum of the buffer lengths of the submissions before the i-th
PrefixLen(i) ==
  SeqSum([j \in 1..(i - 1) |-> IF Validated(reqs[j]) THEN BufLen(reqs[j]) ELSE 0])

AllCurrent == \A i \in Indices : reqs[i].disposition = "UV_CURRENT"

\* some completion was delivered ahead of an earlier submission's
OutOfOrder ==
  \E i, j \in Indices : i < j /\ reqs[i].state = "inflight" /\ reqs[j].state = "done"

\* C1 as stated: in a run of CURRENT submissions the resolved offset of each
\* is the sum of the buffer lengths of the submissions before it, counted
\* from the cursor captured at init, in every state, that is whatever
\* completions the loop has delivered and in whatever order.
C1_Original ==
  AllCurrent =>
    \A i \in Indices : reqs[i].offset = init_pointer + PrefixLen(i)

\* C1 as amended: in a run of CURRENT submissions the resolved offset of each
\* is the cursor captured at init, plus the sum of the buffer lengths of the
\* submissions before it, plus the submission's own requested offset (0 for
\* uv_file_read and uv_file_write), whatever completions have been delivered.
C1_CursorReservation ==
  AllCurrent =>
    \A i \in Indices :
      reqs[i].offset = init_pointer + PrefixLen(i) + reqs[i].req_offset

C1_Witness ==
  /\ AllCurrent
  /\ Len(reqs) >= 2
  /\ init_pointer # 0
  /\ reqs[2].req_offset # 0
  /\ reqs[1].type # reqs[2].type
  /\ OutOfOrder

\* C9 as stated: of any two CURRENT submissions the earlier one's byte range
\* lies entirely below the later one's, whatever the completion order.
C9_Original ==
  \A i, j \in Indices :
    ( /\ i < j
      /\ Validated(reqs[i]) /\ Validated(reqs[j])
      /\ reqs[i].disposition = "UV_CURRENT"
      /\ reqs[j].disposition = "UV_CURRENT" )
    => reqs[i].offset + BufLen(reqs[i]) <= reqs[j].offset

\* C9 as amended: of any two CURRENT submissions where the later one's
\* requested offset is not below the earlier one's (as with uv_file_read and
\* uv_file_write, whose requested offset is 0), the earlier one's byte range
\* lies entirely below the later one's, whatever the completion order.
C9_Ordering ==
  \A i, j \in Indices :
    ( /\ i < j
      /\ Validated(reqs[i]) /\ Validated(reqs[j])
      /\ reqs[i].disposition = "UV_CURRENT"
      /\ reqs[j].disposition = "UV_CURRENT"
      /\ reqs[i].req_offset <= reqs[j].req_offset )
    => reqs[i].offset + BufLen(reqs[i]) <= reqs[j].offset

C9_Witness ==
  /\ Len(reqs) >= 2
  /\ reqs[1].disposition = "UV_CURRENT" /\ reqs[2].disposition = "UV_CURRENT"
  /\ reqs[1].type = "UV_READ" /\ reqs[2].type = "UV_WRITE"
  /\ reqs[1].req_offset = reqs[2].req_offset
  /\ reqs[1].state = "inflight" /\ reqs[2].state = "done"
  /\ reqs[1].offset + BufLen(reqs[1]) = reqs[2].offset

\* C10: the offset handed to the system is the requested offset under START
\* and the cursor at the time of the call plus the requested offset under
\* CURRENT, for reads and writes alike; uv_file_read and uv_file_write
\* submit with CURRENT and a requested offset of 0.
C10_OffsetResolver ==
  \A i \in Indices :
    /\ Validated(reqs[i]) =>
         reqs[i].offset = IF reqs[i].disposition = "UV_START"
                          THEN reqs[i].req_offset
                          ELSE reqs[i].fp_before + reqs[i].req_offset
    /\ calls[i] = "uv_file_read" =>
         /\ reqs[i].type = "UV_READ"
         /\ reqs[i].disposition = "UV_CURRENT" /\ reqs[i].req_offset = 0
    /\ calls[i] = "uv_file_write" =>
         /\ reqs[i].type = "UV_WRITE"
         /\ reqs[i].disposition = "UV_CURRENT" /\ reqs[i].req_offset = 0

C10_Witness ==
  /\ Len(reqs) >= 2
  /\ calls[1] = "uv_file_read"
  /\ calls[2] = "uv_file_write_offset"
  /\ reqs[2].disposition = "UV_START"
  /\ reqs[2].req_offset # 0
  /\ reqs[2].fp_before > init_pointer
  /\ init_pointer # 0
  /\ Validated(reqs[2])

Reads == {i \in Indices : reqs[i].type = "UV_READ"}
Writes == {i \in Indices : reqs[i].type = "UV_WRITE"}

\* the sum of f over the requests of the set among
Total(f, among) == SeqSum([i \in Indices |-> IF i \in among THEN f[i] ELSE 0])

\* queued_bytes of the requests the Completion Processor has not been handed yet
Queued == [i \in Indices |-> IF reqs[i].state = "inflight" THEN reqs[i].queued_bytes ELSE 0]

CbCalls == [i \in Indices |-> reqs[i].cb_calls]

read_called == Total(CbCalls, Reads)
write_called == Total(CbCalls, Writes)

Shutting == "UV_HANDLE_SHUTTING" \in flags
Shut == "UV_HANDLE_SHUT" \in flags
Closing == "UV_HANDLE_CLOSING" \in flags
Closed == "UV_HANDLE_CLOSED" \in flags

\* C2: the close callback fires at most once, and once when closed is reached
\* with a callback given; the step that fires it ends with pending_total 0
\* and, when a shutdown was requested, with the shutdown step done: shut set
\* and no write pending.
C2_CloseOrdering ==
  /\ [](close_called <= 1)
  /\ []((Closed /\ close_cb) => close_called = 1)
  /\ [](close_called = 1 => Closed)
  /\ [][close_called' # close_called =>
          /\ close_called' = 1
          /\ reqs_pending' = 0
          /\ (Shutting' => (Shut' /\ write_reqs_pending' = 0))]_vars

C2_Witness ==
  /\ close_called = 1
  /\ Shut
  /\ \E i \in Writes : reqs[i].state = "done"
  /\ \E i \in Reads : reqs[i].state = "done"

\* C3 as stated: pending_total is pending_reads + pending_writes, and none
\* of the three is negative, in every state.
C3_Original ==
  /\ reqs_pending = read_reqs_pending + write_reqs_pending
  /\ reqs_pending >= 0 /\ read_reqs_pending >= 0 /\ write_reqs_pending >= 0

\* C3 as amended: pending_total is pending_reads + pending_writes, plus one
\* from the shutdown request until the shutdown step has run, and none of
\* the three is negative, in every state.
C3_PendingAccounting ==
  /\ reqs_pending = read_reqs_pending + write_reqs_pending
                    + (IF Shutting /\ ~Shut THEN 1 ELSE 0)
  /\ reqs_pending >= 0 /\ read_reqs_pending >= 0 /\ write_reqs_pending >= 0
  /\ read_reqs_pending = Cardinality({i \in Reads : InFlight(reqs[i])})
  /\ write_reqs_pending = Cardinality({i \in Writes : InFlight(reqs[i])})

C3_Witness ==
  /\ Shutting /\ ~Shut
  /\ read_reqs_pending = 1 /\ write_reqs_pending = 1
  /\ in_cb # 0
  /\ \E i \in Indices : reqs[i].state = "failed"

\* C4: read_queue_bytes is the sum of queued_bytes over the reads submitted
\* and not yet handed to the Completion Processor, write_queue_bytes the
\* same over the writes; queued_bytes is 0 for a request that completed at
\* submission and the buffer length for a pending one.
C4_QueueBytes ==
  /\ read_queue_size = Total(Queued, Reads)
  /\ write_queue_size = Total(Queued, Writes)
  /\ \A i \in Indices :
       Submitted(reqs[i]) =>
         reqs[i].queued_bytes = IF reqs[i].os = "sync" THEN 0 ELSE BufLen(reqs[i])

C4_Witness ==
  /\ read_queue_size = 2
  /\ \E i \in Reads : reqs[i].state = "inflight" /\ reqs[i].os = "sync"
  /\ in_cb # 0 /\ reqs[in_cb].os = "pending"

\* the arguments the layer does not support
Unsupported(r) == Len(r.bufs) # 1 \/ r.disposition = "UV_END"

\* C5: a submission with no buffer, with two or more, or with END fails with
\* UV_ENOTSUP and leaves the cursor, the pending counters, the queue sizes and
\* the flags as they were; its callback is never invoked.
C5_Rejection ==
  /\ [](\A i \in Indices :
          Unsupported(reqs[i]) =>
            /\ reqs[i].ret = -1 /\ reqs[i].err = "UV_ENOTSUP"
            /\ reqs[i].cb_calls = 0
            /\ ~Submitted(reqs[i]))
  /\ [][(Len(reqs') = Len(reqs) + 1 /\ Unsupported(reqs'[Len(reqs')])) =>
          UNCHANGED << file_pointer, counters, flags, handle >>]_vars

C5_Witness ==
  /\ \E i \in Reads : Len(reqs[i].bufs) = 0
  /\ \E i \in Writes : Len(reqs[i].bufs) = 2
  /\ reqs[1].state = "done"
  /\ Len(reqs) = 3
  /\ file_pointer = 2

\* C6: while closed is set no request is in flight.
C6_ClosedNoneInFlight ==
  Closed => \A i \in Indices : ~InFlight(reqs[i])

C6_Witness ==
  /\ Closed
  /\ Shut
  /\ \E i \in Reads : reqs[i].state = "done"
  /\ \E i \in Writes : reqs[i].state = "done"
  /\ \E i \in Indices : reqs[i].state = "failed"

\* C7: the step that invalidates the native handle is taken with shutting
\* set and no write pending, sets shut, and finds every write submitted
\* before it completed; the handle is invalid exactly when shut is set.
C7_DrainBeforeRelease ==
  /\ [](handle = "INVALID_HANDLE_VALUE" <=> Shut)
  /\ [](Shut => \A i \in Writes : ~InFlight(reqs[i]))
  /\ [][(handle' = "INVALID_HANDLE_VALUE" /\ handle # "INVALID_HANDLE_VALUE") =>
          /\ Shutting
          /\ write_reqs_pending = 0
          /\ \A i \in Writes : ~InFlight(reqs[i])
          /\ Shut']_vars

C7_Witness ==
  /\ Shut
  /\ ~Closed
  /\ \E i \in Writes : reqs[i].state = "done" /\ reqs[i].os = "pending"
  /\ \E i \in Writes : reqs[i].state = "failed"

\* C8: a request whose submission returned success has had its callback
\* invoked once as soon as the loop has delivered its completion and not
\* before; one whose submission returned an error never; when the handle
\* is closed every successful read and write has had its callback invoked
\* once and the close callback has been invoked once.
C8_ExactlyOnce ==
  /\ \A i \in Indices :
       /\ reqs[i].ret = 0 <=> Submitted(reqs[i])
       /\ reqs[i].state = "inflight" => reqs[i].cb_calls = 0
       /\ reqs[i].state \in {"in_cb", "done"} => reqs[i].cb_calls = 1
       /\ reqs[i].ret # 0 => reqs[i].cb_calls = 0
  /\ Closed =>
       /\ read_called = Cardinality({i \in Reads : reqs[i].ret = 0})
       /\ write_called = Cardinality({i \in Writes : reqs[i].ret = 0})
       /\ close_cb => close_called = 1

\* C8 in the test's scenario: when uv_run has finished (the handle is closed
\* and has dropped its reference on the loop) read_called is 3, write_called
\* is 2 and close_called is 1, the three reads and two writes each called once.
C8_TestScenario ==
  Closed =>
    /\ read_called = 3 /\ write_called = 2 /\ close_called = 1
    /\ \A i \in Indices : reqs[i].state = "done" /\ reqs[i].cb_calls = 1

C8_TestScenarioWitness ==
  /\ Closed
  /\ \E i, j \in Indices : reqs[i].os = "pending" /\ reqs[j].os = "sync"

C8_Witness ==
  /\ Closed
  /\ close_called = 1
  /\ read_called = 1
  /\ write_called = 1
  /\ \E i \in Indices : reqs[i].ret # 0


\* C11: a submission whose system call neither completes nor reports pending
\* returns -1 with the system error and leaves the pending counters and the
\* queue sizes as they were, while the cursor moves on by the buffer length;
\* its callback is never invoked, the loop never processes it, and the
\* cursor never moves back afterwards.
C11_HardFailure ==
  /\ [](\A i \in Indices :
          (Validated(reqs[i]) /\ reqs[i].os = "fail") =>
            /\ reqs[i].ret = -1 /\ reqs[i].err = "SYS"
            /\ reqs[i].state = "failed"
            /\ reqs[i].cb_calls = 0)
  /\ [][(Len(reqs') = Len(reqs) + 1 /\ reqs'[Len(reqs')].os = "fail") =>
          /\ UNCHANGED counters
          /\ file_pointer' = file_pointer + BufLen(reqs'[Len(reqs')])]_vars
  /\ [][\A i \in Indices : reqs[i].os = "fail" => reqs'[i] = reqs[i]]_vars
  /\ [][reqs # << >> => file_pointer' >= file_pointer]_vars

C11_Witness ==
  /\ Len(reqs) = 2
  /\ reqs[1].os = "fail" /\ reqs[1].type = "UV_READ"
  /\ reqs[2].os = "pending" /\ reqs[2].type = "UV_WRITE" /\ reqs[2].state = "done"
  /\ reqs[2].disposition = "UV_CURRENT"
  /\ reqs[2].offset = init_pointer + BufLen(reqs[1]) + reqs[2].req_offset
  /\ file_pointer = init_pointer + BufLen(reqs[1]) + BufLen(reqs[2])
  /\ reqs_pending = 0


\* C12: uv_file_init returns 0 exactly when the registration with the
\* completion port and the position query both succeeded, and -1 otherwise;
\* after a successful init bound is set, reqs_pending is 0 and the cursor is
\* the file's position; after a failed one bound is not set and stays so.
C12_InitOutcome ==
  /\ [](("UV_HANDLE_BOUND" \in flags) <=> (\E k \in 1..Len(inits) : inits[k].ret = 0))
  /\ [](\A k \in 1..Len(inits) :
          /\ inits[k].ret = 0 <=> (inits[k].registered /\ inits[k].positioned)
          /\ inits[k].ret \in {0, -1}
          /\ inits[k].ret = 0 => init_pointer = inits[k].position)
  /\ [][inits' # inits =>
          LET call == inits'[Len(inits')] IN
          /\ reqs_pending' = 0
          /\ call.ret = 0 => file_pointer' = call.position
          /\ ("UV_HANDLE_BOUND" \in flags') <=> call.ret = 0]_vars

C12_Witness ==
  /\ inits # << >>
  /\ inits[1].ret = 0
  /\ inits[1].position = 1
  /\ reqs = << >>
  /\ file_pointer = 1

\* the position query failed after a successful registration: no I/O follows
C12_FailureWitness ==
  /\ inits # << >>
  /\ inits[1].registered /\ ~inits[1].positioned
  /\ inits[1].ret = -1
  /\ "UV_HANDLE_BOUND" \notin flags


\* C13: under a loop that keeps delivering the completions and keeps
\* evaluating the endgame, a handle on which close was requested reaches
\* closed, and its close callback, when one was given, is invoked, with a
\* shutdown requested before the close, after it, or not at all.
C13_CloseLiveness ==
  /\ Closing ~> Closed
  /\ (Closing /\ close_cb) ~> (close_called = 1)
  /\ (Closing /\ ~Shutting) ~> Closed
  /\ (Closing /\ Shutting) ~> (Closed /\ Shut)

C13_Witness ==
  /\ Closed
  /\ ~Shutting
  /\ close_called = 1
  /\ \E i \in Reads : reqs[i].state = "done" /\ reqs[i].os = "pending"
  /\ \E i \in Writes : reqs[i].state = "done" /\ reqs[i].os = "pending"


\* C14 as stated: once closed is set the native handle is the invalid
\* sentinel, whether or not a shutdown was requested before the close.
C14_ClosedHandleInvalid ==
  Closed => handle = "INVALID_HANDLE_VALUE"


\* C15: in every state the cursor is the cursor captured at init plus the
\* sum of the buffer lengths of all the reads and writes that passed the
\* argument checks, whatever their disposition, requested offset and system
\* call outcome; so no completion moves it, and a START submission moves it
\* by its buffer length, not to its offset plus length.
C15_CursorEquation ==
  /\ [](file_pointer = init_pointer + PrefixLen(Len(reqs) + 1))
  /\ [][(Len(reqs') = Len(reqs) /\ inits' = inits) => file_pointer' = file_pointer]_vars
  /\ [][(Len(reqs') = Len(reqs) + 1 /\ Validated(reqs'[Len(reqs')])) =>
          file_pointer' = file_pointer + BufLen(reqs'[Len(reqs')])]_vars

C15_Witness ==
  /\ Len(reqs) = 2
  /\ init_pointer = 1
  /\ reqs[1].disposition = "UV_START" /\ reqs[1].os = "fail"
  /\ reqs[2].disposition = "UV_START" /\ reqs[2].state = "done"
  /\ reqs[2].type = "UV_WRITE"
  /\ file_pointer # reqs[2].offset + BufLen(reqs[2])
  /\ file_pointer = 1 + BufLen(reqs[1]) + BufLen(reqs[2])


\* C16: while a completion callback runs its request still counts, so the
\* teardown guard is false, closed is not set and the close callback has
\* not been invoked, also when that callback has requested the close and its
\* request is the last one in flight; closed is set by a step taken outside
\* of any callback, with every request done and reqs_pending 0, and that
\* step invokes the close callback, which is invoked once in all.
C16_CloseInsideCallback ==
  /\ [](in_cb # 0 =>
          /\ reqs_pending >= 1
          /\ ~(Closing /\ reqs_pending = 0)
          /\ ~Closed
          /\ close_called = 0)
  /\ [][(Closed' /\ ~Closed) =>
          /\ in_cb = 0
          /\ \A i \in Indices : ~InFlight(reqs[i])
          /\ read_reqs_pending = 0 /\ write_reqs_pending = 0
          /\ reqs_pending' = 0
          /\ close_called' = IF close_cb THEN 1 ELSE 0]_vars
  /\ [](close_called <= 1)
  /\ []((Closed /\ close_cb) => close_called = 1)

C16_Witness ==
  /\ in_cb # 0
  /\ Closing
  /\ reqs_pending = 1
  /\ \A i \in Indices : i # in_cb => reqs[i].state = "done"
  /\ reqs[in_cb].type = "UV_READ"
  /\ close_called = 0


\* a request whose completion the Completion Processor has been handed
Processed(r) == r.state \in {"in_cb", "done"}

\* C17 as stated: a read whose GetOverlappedResult failed has had its
\* callback invoked once, with -1 as nread and with its own buffer, and the
\* processor took its queued bytes off read_queue_size and, when through,
\* one off read_reqs_pending and reqs_pending, as for any completion.
C17_FailedQuery ==
  /\ [](\A i \in Reads :
          (Processed(reqs[i]) /\ reqs[i].query = "fail") =>
            /\ reqs[i].cb_calls = 1
            /\ reqs[i].nread = SsizeOf(-1)
            /\ reqs[i].buf = << BufLen(reqs[i]) >>)
  /\ [][\A i \in Reads :
          (reqs[i].state = "inflight" /\ reqs'[i].state = "in_cb") =>
            read_queue_size' = read_queue_size - reqs[i].queued_bytes]_vars
  /\ [][\A i \in Reads :
          (reqs[i].state = "in_cb" /\ reqs'[i].state = "done") =>
            /\ read_reqs_pending' = read_reqs_pending - 1
            /\ reqs_pending' = reqs_pending - 1]_vars

\* C17 on a 64-bit build: a read whose GetOverlappedResult failed has its
\* callback invoked once with 2^32 - 1 as nread.
C17_FailedQueryWide ==
  \E i \in Reads :
    /\ reqs[i].state = "done"
    /\ reqs[i].query = "fail"
    /\ reqs[i].cb_calls = 1
    /\ reqs[i].nread = << Limb - 1, Limb - 1 >>


\* C18 as stated: a completed write whose request carries an error recorded
\* by the loop, or whose GetOverlappedResult failed, has its callback called
\* with a status other than UV_OK; the callback is called with UV_OK only
\* when there was neither.
C18_WriteErrorsSurface ==
  \A i \in Writes :
    (Processed(reqs[i]) /\ reqs[i].cb) =>
      /\ (reqs[i].error # "UV_OK" \/ reqs[i].query = "fail") => reqs[i].status = "-1"
      /\ reqs[i].status = "UV_OK" => (reqs[i].error = "UV_OK" /\ reqs[i].query # "fail")

\* a write whose GetOverlappedResult failed and whose callback was told UV_OK
C18_SwallowedQueryFailure ==
  \E i \in Writes :
    /\ reqs[i].state = "done"
    /\ reqs[i].query = "fail"
    /\ reqs[i].error = "UV_OK"
    /\ reqs[i].status = "UV_OK"


\* the fields uv_file_endgame writes, as they are
EndgameFields ==
  [ handle |-> handle, reqs_pending |-> reqs_pending, flags |-> flags,
    close_called |-> close_called, assert_failed |-> FALSE ]

\* one evaluation of the endgame in the current state
EndgameOnce ==
  EndgameResult(flags, handle, reqs_pending, write_reqs_pending, close_cb, close_called)

\* a second evaluation right after the first
EndgameTwice ==
  EndgameResult(EndgameOnce.flags, EndgameOnce.handle, EndgameOnce.reqs_pending,
                write_reqs_pending, close_cb, EndgameOnce.close_called)

\* C19: before closed, an evaluation of the endgame with neither guard true
\* writes nothing and calls nothing, an evaluation right after one that did
\* not close writes nothing either, and the assertion holds in each; the
\* shutdown step takes effect once at most (the handle is released and
\* reqs_pending decremented by one step only, the one that sets shut), and
\* so does the teardown step (closed is set and close_cb called by one step
\* only, and no step follows it).
C19_EndgameIdempotent ==
  /\ [](~Closed =>
          /\ ~EndgameOnce.assert_failed
          /\ ( /\ ~ShutdownStepGuard(flags, write_reqs_pending)
               /\ ~TeardownStepGuard(flags, reqs_pending) ) => EndgameOnce = EndgameFields
          /\ "UV_HANDLE_CLOSED" \notin EndgameOnce.flags =>
               /\ ~EndgameTwice.assert_failed
               /\ EndgameTwice = EndgameOnce)
  /\ [][(reqs' = reqs /\ reqs_pending' < reqs_pending) =>
          /\ handle = "native" /\ handle' = "INVALID_HANDLE_VALUE"
          /\ ~Shut /\ Shut'
          /\ reqs_pending' = reqs_pending - 1]_vars
  /\ [][handle = "INVALID_HANDLE_VALUE" => (handle' = handle /\ Shut')]_vars
  /\ [][~Closed]_vars
  /\ [][close_called' # close_called =>
          (close_called = 0 /\ close_called' = 1 /\ ~Closed /\ Closed')]_vars

C19_Witness ==
  /\ in_cb = 0
  /\ Shut /\ Closing /\ ~Closed
  /\ read_reqs_pending = 1 /\ reqs_pending = 1
  /\ ~ShutdownStepGuard(flags, write_reqs_pending)
  /\ ~TeardownStepGuard(flags, reqs_pending)
  /\ \E i \in Writes : reqs[i].state = "done"


\* C20 as stated: the step that invalidates the native handle is taken with
\* no read pending, and the Completion Processor is never handed a read on
\* a handle that has been invalidated.
C20_NoReadAtRelease ==
  /\ [][(handle = "native" /\ handle' = "INVALID_HANDLE_VALUE") =>
          read_reqs_pending = 0]_vars
  /\ [][\A i \in Reads :
          (reqs[i].state = "inflight" /\ reqs'[i].state # "inflight") =>
            handle = "native"]_vars

\* a read completed against a handle the shutdown step had released before
C20_ReadAfterRelease ==
  /\ handle = "INVALID_HANDLE_VALUE"
  /\ in_cb # 0
  /\ reqs[in_cb].type = "UV_READ"

====
